---------------------------- MODULE Spec2Model ----------------------------
(***************************************************************************)
(* Model of fairscale/experimental/nn/multiprocess_pipe.py:                *)
(*   PipelineModulesGraph (the builder and compute_output_users),          *)
(*   _split_module, DistributedPipeline.__init__ / forward,                *)
(*   DistributedPipelineRecord (feed / wait_for / get_batch) and           *)
(*   PartitionHandler (run / fence / compute / forward_results /           *)
(*   run_pipeline).                                                        *)
(*                                                                         *)
(* Python lists are sequences; a Python index i is position i + 1, read    *)
(* with At(s, i), so the source's index arithmetic and its comparisons     *)
(* (rank > 0, chunk != 0, input_item[0] >= 0) stay as written.             *)
(***************************************************************************)
EXTENDS Integers, Sequences, FiniteSets, TLC

(***************************************************************************)
(* Bounds of the model.                                                    *)
(***************************************************************************)
\* longest modules_list the builder calls may produce
MaxModules == 3
\* largest number of micro-batches (chunks) of one forward call
MaxChunks == 2

(***************************************************************************)
(* Python values.                                                          *)
(***************************************************************************)
\* PipelineModule.num_outputs = None (the forward function returns a tensor)
NoneOutputs == 0

\* inputs[i] = None: an input list that was never assigned.  Every assigned
\* list holds pairs (module index >= -1, slot >= 0), so this one is no list.
NoneInputs == << <<-2, -2>> >>

At(s, i) == s[i + 1]

Range(s) == {s[i] : i \in DOMAIN s}

\* list.index(x): the first position holding x; ValueError when absent
Has(s, x) == \E i \in DOMAIN s : s[i] = x

IndexOf(s, x) == (CHOOSE i \in DOMAIN s : s[i] = x /\ \A j \in 1..(i - 1) : s[j] # x) - 1

RECURSIVE Sum(_)
Sum(s) == IF s = <<>> THEN 0 ELSE Head(s) + Sum(Tail(s))

RECURSIVE Flatten(_)
Flatten(ss) == IF ss = <<>> THEN <<>> ELSE Head(ss) \o Flatten(Tail(ss))

(***************************************************************************)
(* PipelineModule: the objects handed to the builder.  on / device are the *)
(* two halves of remote_device ("<worker>/<device>").                      *)
(***************************************************************************)
PipelineModule(name, num_inputs, num_outputs, on, device) ==
    [name |-> name, num_inputs |-> num_inputs, num_outputs |-> num_outputs,
     on |-> on, device |-> device]

\* the module objects of the builder runs
\* A and B: one input, a single tensor out, on worker w0
\* a module constructed without remote_device has no attribute on, device
\* or module_rref until instantiate is called
Instantiated(module) == module.on # "unset"

\* instantiate(remote_device); remote_device is given split at "/", as
\* <<on, device>>
instantiate(module, remote_device) ==
    [module EXCEPT !.on = remote_device[1], !.device = remote_device[2]]

ModA == PipelineModule("A", 1, NoneOutputs, "w0", "cpu")
ModB == PipelineModule("B", 1, NoneOutputs, "w0", "cpu")
\* C and D: one and two inputs, on another worker and a cuda device
ModC == PipelineModule("C", 1, NoneOutputs, "w1", "cuda:0")
ModD == PipelineModule("D", 2, NoneOutputs, "w1", "cuda:0")
\* E: a second entry module, on a third worker
ModE == PipelineModule("E", 1, NoneOutputs, "w2", "cpu")
\* S: one input, a tuple of two tensors out, on worker w0
ModS == PipelineModule("S", 1, 2, "w0", "cpu")

ModulePool == {ModA, ModS, ModC}

(***************************************************************************)
(* PipelineModulesGraph.                                                   *)
(***************************************************************************)
EmptyGraph == [modules_list |-> <<>>, inputs |-> <<>>]

Ok(g) == [g |-> g, err |-> "none"]
Raise(g, e) == [g |-> g, err |-> e]

RECURSIVE _add_new_module(_, _)
_add_new_module(g, num) ==
    IF num = 0 THEN g
    ELSE _add_new_module([g EXCEPT !.inputs = Append(@, NoneInputs)], num - 1)

\* returns the graph after the call and the index found or added
_find_or_add(g, module) ==
    IF Has(g.modules_list, module)
    THEN [g |-> g, idx |-> IndexOf(g.modules_list, module)]
    ELSE LET g1 == _add_new_module(g, 1)
             g2 == [g1 EXCEPT !.modules_list = Append(@, module)]
         IN [g |-> g2, idx |-> Len(g2.modules_list) - 1]

SetInputs(g, idx, value) == [g EXCEPT !.inputs[idx + 1] = value]

\* first_input is <<>> (None) or <<module>>
add_sequence(g, modules, first_input) ==
    LET old_m == Len(g.modules_list)
        m == Len(modules)
        g1 == _add_new_module(g, m)
        g2 == [g1 EXCEPT !.modules_list = @ \o modules]
        g3 == [g2 EXCEPT !.inputs =
                  [p \in DOMAIN @ |->
                      IF (p - 1) \in (old_m + 1)..(old_m + m - 1)
                      THEN << <<(p - 1) - 1, 0>> >> ELSE @[p]]]
    IN IF first_input = <<>> THEN Ok(g3)
       ELSE IF ~Has(g3.modules_list, first_input[1]) THEN Raise(g3, "ValueError")
       ELSE Ok(SetInputs(g3, old_m, << <<IndexOf(g3.modules_list, first_input[1]), 0>> >>))

feed_model_input(g, module, ind) ==
    LET r == _find_or_add(g, module)
    IN Ok(SetInputs(r.g, r.idx, << <<-1, ind>> >>))

\* the right-hand side (the index of every source) is evaluated first, then
\* _find_or_add(module), then the assignment
add_multi_input_layer(g, module, inputs) ==
    IF \E k \in DOMAIN inputs : ~Has(g.modules_list, inputs[k])
    THEN Raise(g, "ValueError")
    ELSE LET value == [k \in DOMAIN inputs |-> <<IndexOf(g.modules_list, inputs[k]), 0>>]
             r == _find_or_add(g, module)
         IN Ok(SetInputs(r.g, r.idx, value))

RECURSIVE fan_out_loop(_, _, _, _)
fan_out_loop(g, mi, outputs, i) ==
    IF i >= Len(outputs) THEN g
    ELSE LET r == _find_or_add(g, At(outputs, i))
         IN fan_out_loop(SetInputs(r.g, r.idx, << <<mi, i>> >>), mi, outputs, i + 1)

fan_out(g, module, outputs) ==
    IF ~Has(g.modules_list, module) THEN Raise(g, "ValueError")
    ELSE Ok(fan_out_loop(g, IndexOf(g.modules_list, module), outputs, 0))

RECURSIVE replicate_loop(_, _, _, _)
replicate_loop(g, mi, outputs, i) ==
    IF i >= Len(outputs) THEN g
    ELSE LET r == _find_or_add(g, At(outputs, i))
         IN replicate_loop(SetInputs(r.g, r.idx, << <<mi, 0>> >>), mi, outputs, i + 1)

replicate_output(g, module, outputs) ==
    IF ~Has(g.modules_list, module) THEN Raise(g, "ValueError")
    ELSE Ok(replicate_loop(g, IndexOf(g.modules_list, module), outputs, 0))

\* validate_graph: the body is 'pass' (its checks are a TODO)
validate_graph(g) == TRUE

(***************************************************************************)
(* compute_output_users: one pass over inputs in (i, j) order.             *)
(***************************************************************************)
\* every (i, j, source, slot) in the order the two loops visit them
RECURSIVE InputItems(_, _)
InputItems(g, i) ==
    IF i >= Len(g.inputs) THEN <<>>
    ELSE [j \in 1..Len(At(g.inputs, i)) |->
             <<i, j - 1, At(g.inputs, i)[j][1], At(g.inputs, i)[j][2]>>]
         \o InputItems(g, i + 1)

\* UsersOf that records output slot 0 for every user
UsersOfFirstOutput(items, src) ==
    LET sel == SelectSeq(items, LAMBDA it : it[3] = src)
    IN [n \in DOMAIN sel |-> <<sel[n][1], sel[n][2], 0>>]

UsersOf(items, src) ==
    LET sel == SelectSeq(items, LAMBDA it : it[3] = src)
    IN [n \in DOMAIN sel |-> <<sel[n][1], sel[n][2], sel[n][4]>>]

ModelInputUsers(items) ==
    LET sel == SelectSeq(items, LAMBDA it : ~(it[3] >= 0))
    IN [n \in DOMAIN sel |-> <<sel[n][1], sel[n][2], sel[n][4]>>]

\* err: the 'assert input is not None' failed
compute_output_users(g) ==
    IF \E p \in DOMAIN g.inputs : g.inputs[p] = NoneInputs
    THEN [err |-> "AssertionError", output_users |-> <<>>, model_input_users |-> <<>>]
    ELSE LET items == InputItems(g, 0)
         IN [err |-> "none",
             output_users |-> [p \in DOMAIN g.modules_list |-> UsersOf(items, p - 1)],
             model_input_users |-> ModelInputUsers(items)]

(***************************************************************************)
(* _split_module.                                                          *)
(***************************************************************************)
\* SplitChain without 'module_used[current_module_idx] = True'
RECURSIVE SplitChainNoMark(_, _, _, _, _)
SplitChainNoMark(g, output_users, st, current_module_idx, current_module) ==
    LET st1 == [st EXCEPT !.partition = Append(@, current_module_idx)]
    IN IF Len(At(output_users, current_module_idx)) # 1 THEN st1
       ELSE IF At(g.modules_list, current_module_idx).num_outputs # NoneOutputs THEN st1
       ELSE LET next_module_idx == At(output_users, current_module_idx)[1][1]
                next_module == At(g.modules_list, next_module_idx)
            IN IF At(g.inputs, next_module_idx) # << <<current_module_idx, 0>> >> THEN st1
               ELSE IF next_module.on # current_module.on THEN st1
               ELSE IF next_module.device # current_module.device THEN st1
               ELSE IF Len(st1.partition) > Len(g.modules_list) THEN st1
               ELSE SplitChainNoMark(g, output_users, st1, next_module_idx, next_module)

\* SplitChain without 'if ...num_outputs is not None: break'
RECURSIVE SplitChainTupleOutput(_, _, _, _, _)
SplitChainTupleOutput(g, output_users, st, current_module_idx, current_module) ==
    IF At(st.used, current_module_idx)
    THEN [st EXCEPT !.err = "AssertionError"]
    ELSE LET st1 == [st EXCEPT !.used[current_module_idx + 1] = TRUE,
                               !.partition = Append(@, current_module_idx)]
         IN IF Len(At(output_users, current_module_idx)) # 1 THEN st1
            ELSE LET next_module_idx == At(output_users, current_module_idx)[1][1]
                     next_module == At(g.modules_list, next_module_idx)
                 IN IF At(g.inputs, next_module_idx) # << <<current_module_idx, 0>> >> THEN st1
                    ELSE IF ~Instantiated(next_module) \/ ~Instantiated(current_module)
                    THEN [st1 EXCEPT !.err = "AttributeError"]
                    ELSE IF next_module.on # current_module.on THEN st1
                    ELSE IF next_module.device # current_module.device THEN st1
                    ELSE SplitChainTupleOutput(g, output_users, st1, next_module_idx, next_module)

\* the 'while True' loop: st = [used, partition, err]
RECURSIVE SplitChain(_, _, _, _, _)
SplitChain(g, output_users, st, current_module_idx, current_module) ==
    IF At(st.used, current_module_idx)
    THEN [st EXCEPT !.err = "AssertionError"]
    ELSE LET st1 == [st EXCEPT !.used[current_module_idx + 1] = TRUE,
                               !.partition = Append(@, current_module_idx)]
         IN IF Len(At(output_users, current_module_idx)) # 1 THEN st1
            ELSE IF At(g.modules_list, current_module_idx).num_outputs # NoneOutputs THEN st1
            ELSE LET next_module_idx == At(output_users, current_module_idx)[1][1]
                     next_module == At(g.modules_list, next_module_idx)
                 IN IF At(g.inputs, next_module_idx) # << <<current_module_idx, 0>> >> THEN st1
                    ELSE IF ~Instantiated(next_module) \/ ~Instantiated(current_module)
                    THEN [st1 EXCEPT !.err = "AttributeError"]
                    ELSE IF next_module.on # current_module.on THEN st1
                    ELSE IF next_module.device # current_module.device THEN st1
                    ELSE SplitChain(g, output_users, st1, next_module_idx, next_module)

\* the 'for module_idx, module in enumerate(graph.modules_list)' loop
RECURSIVE SplitLoop(_, _, _, _, _)
SplitLoop(g, output_users, module_used, partitions, module_idx) ==
    IF module_idx >= Len(g.modules_list)
    THEN [err |-> "none", partitions |-> partitions]
    ELSE IF At(module_used, module_idx)
    THEN SplitLoop(g, output_users, module_used, partitions, module_idx + 1)
    ELSE LET st == SplitChain(g, output_users,
                              [used |-> module_used, partition |-> <<>>, err |-> "none"],
                              module_idx, At(g.modules_list, module_idx))
         IN IF st.err # "none"
            THEN [err |-> st.err, partitions |-> partitions]
            \* get_module_rref() / .on of the partition's modules
            ELSE IF \E k \in DOMAIN st.partition :
                       ~Instantiated(At(g.modules_list, st.partition[k]))
            THEN [err |-> "AttributeError", partitions |-> partitions]
            ELSE SplitLoop(g, output_users, st.used, Append(partitions, st.partition),
                           module_idx + 1)

\* the list of partitions (module-index lists); the module_rref of each is
\* the module itself or the MultiInputSequential over the list
_split_module(g) ==
    LET cou == compute_output_users(g)
    IN IF cou.err # "none" THEN [err |-> cou.err, partitions |-> <<>>]
       ELSE SplitLoop(g, cou.output_users, [p \in DOMAIN g.modules_list |-> FALSE], <<>>, 0)


(***************************************************************************)
(* DistributedPipeline.__init__.                                           *)
(***************************************************************************)
CheckpointModes == {"always", "except_last", "never"}

\* next(i for i, (p, m) in enumerate(partitions) if p[0] == first)
HasPartitionOf(partitions, first) == \E i \in DOMAIN partitions : partitions[i][1] = first

PartitionOf(partitions, first) ==
    (CHOOSE i \in DOMAIN partitions :
        partitions[i][1] = first /\ \A k \in 1..(i - 1) : partitions[k][1] # first) - 1

Last(s) == s[Len(s)]

NoPipeline ==
    [err |-> "unbuilt", chunks |-> 0, checkpoint_stop |-> 0, partitions |-> <<>>,
     input_feeds |-> <<>>, partition_handlers |-> <<>>, output_users |-> <<>>]

\* PartitionHandler.__init__ (training is the module's own mode flag)
PartitionHandler(device, num_input, num_output, rank, nchunks, checkpoint_stop) ==
    [device |-> device, num_input |-> num_input, num_output |-> num_output,
     rank |-> rank, chunks |-> nchunks, checkpoint_stop |-> checkpoint_stop]

CheckpointStop(nchunks, checkpoint) ==
    CASE checkpoint = "always" -> nchunks
      [] checkpoint = "except_last" -> nchunks - 1
      [] checkpoint = "never" -> 0

\* CheckArguments without 'if chunks <= 0: raise ValueError'
CheckCheckpointOnly(nchunks, checkpoint) ==
    IF checkpoint \notin CheckpointModes THEN "ValueError" ELSE "none"

\* the two argument checks of __init__: the exception raised
CheckArguments(nchunks, checkpoint) ==
    IF nchunks <= 0 THEN "ValueError"
    ELSE IF checkpoint \notin CheckpointModes THEN "ValueError"
    ELSE "none"

DistributedPipelineInit(g, nchunks, checkpoint) ==
    IF ~validate_graph(g) THEN [NoPipeline EXCEPT !.err = "GraphError"]
    ELSE IF CheckArguments(nchunks, checkpoint) # "none"
    THEN [NoPipeline EXCEPT !.err = CheckArguments(nchunks, checkpoint)]
    ELSE LET sp == _split_module(g)
             cou == compute_output_users(g)
         IN IF sp.err # "none" THEN [NoPipeline EXCEPT !.err = sp.err]
            ELSE IF \E n \in DOMAIN cou.model_input_users :
                       ~HasPartitionOf(sp.partitions, cou.model_input_users[n][1])
            THEN [NoPipeline EXCEPT !.err = "StopIteration", !.chunks = nchunks,
                                    !.partitions = sp.partitions]
            ELSE [err |-> "none",
                  chunks |-> nchunks,
                  checkpoint_stop |-> CheckpointStop(nchunks, checkpoint),
                  partitions |-> sp.partitions,
                  input_feeds |->
                      [n \in DOMAIN cou.model_input_users |->
                          <<PartitionOf(sp.partitions, cou.model_input_users[n][1]),
                            cou.model_input_users[n][2], cou.model_input_users[n][3]>>],
                  partition_handlers |->
                      [i \in DOMAIN sp.partitions |->
                          PartitionHandler(
                              At(g.modules_list, sp.partitions[i][1]).device,
                              At(g.modules_list, sp.partitions[i][1]).num_inputs,
                              At(g.modules_list, Last(sp.partitions[i])).num_outputs,
                              i - 1, nchunks, CheckpointStop(nchunks, checkpoint))],
                  \* graph.output_users, as left on the graph by _split_module
                  output_users |-> cou.output_users]


(***************************************************************************)
(* DistributedPipeline.cuda / cpu / to.  An argument of to is known by its *)
(* kind: "device" (a torch.device), "int", "str", "tensor", "dtype" or     *)
(* "bool" (non_blocking); kwargs is the set of keyword names.              *)
(***************************************************************************)
\* cuda(device=None): the exception raised
cuda(device) == "TypeError"

\* cpu(): the exception raised
cpu == "TypeError"

\* to without the test of kwargs
toPositionalOnly(args, kwargs) ==
    IF args # <<>> /\ args[1] \in {"device", "int", "str"} THEN "TypeError"
    ELSE IF args # <<>> /\ args[1] = "tensor" THEN "TypeError"
    ELSE "none"

\* to(*args, **kwargs): the exception raised, "none" when the call goes on
\* to nn.Module.to
to(args, kwargs) ==
    IF "device" \in kwargs \/ "tensor" \in kwargs THEN "TypeError"
    ELSE IF args # <<>> /\ args[1] \in {"device", "int", "str"} THEN "TypeError"
    ELSE IF args # <<>> /\ args[1] = "tensor" THEN "TypeError"
    ELSE "none"

(***************************************************************************)
(* create_sequence_pipeline.                                               *)
(***************************************************************************)
\* 'for li in range(index, next_index): layers[li].instantiate(remote_device)'
\* from li on; a negative li indexes from the end of the list
RECURSIVE InstantiateRange(_, _, _, _)
InstantiateRange(st, li, next_index, remote_device) ==
    IF li >= next_index THEN st
    ELSE IF li >= Len(st.layers) \/ li < -Len(st.layers)
    THEN [st EXCEPT !.err = "IndexError"]
    ELSE LET at == IF li >= 0 THEN li ELSE li + Len(st.layers)
         IN InstantiateRange(
                [st EXCEPT !.layers[at + 1] = instantiate(@, remote_device)],
                li + 1, next_index, remote_device)

\* InstantiateGroups without 'index = next_index'
RECURSIVE InstantiateGroupsFromZero(_, _, _, _)
InstantiateGroupsFromZero(st, balance, devices, n) ==
    IF n > Len(balance) \/ n > Len(devices) THEN st
    ELSE LET st1 == InstantiateRange(st, 0, balance[n], devices[n])
         IN IF st1.err # "none" THEN st1
            ELSE InstantiateGroupsFromZero(st1, balance, devices, n + 1)

\* 'for num_layers, remote_device in zip(balance, devices)' from pair n on;
\* st = [layers, index, err]
RECURSIVE InstantiateGroups(_, _, _, _)
InstantiateGroups(st, balance, devices, n) ==
    IF n > Len(balance) \/ n > Len(devices) THEN st
    ELSE LET next_index == st.index + balance[n]
             st1 == InstantiateRange(st, st.index, next_index, devices[n])
         IN IF st1.err # "none" THEN st1
            ELSE InstantiateGroups([st1 EXCEPT !.index = next_index], balance, devices, n + 1)

\* create_sequence_pipeline(layers, balance, devices) with the constructor's
\* default chunks and checkpoint: the graph, the pipeline, the exception
create_sequence_pipeline(layers, balance, devices) ==
    LET st == InstantiateGroups([layers |-> layers, index |-> 0, err |-> "none"],
                                balance, devices, 1)
    IN IF st.err # "none"
       THEN [g |-> EmptyGraph, pipe |-> NoPipeline, err |-> st.err]
       ELSE LET a == add_sequence(EmptyGraph, st.layers, <<>>)
            IN IF st.layers = <<>>
               THEN [g |-> a.g, pipe |-> NoPipeline, err |-> "IndexError"]
               ELSE LET f == feed_model_input(a.g, st.layers[1], 0)
                        pl == DistributedPipelineInit(f.g, 1, "except_last")
                    IN IF f.err # "none"
                       THEN [g |-> f.g, pipe |-> NoPipeline, err |-> f.err]
                       ELSE [g |-> f.g, pipe |-> pl, err |-> pl.err]

(***************************************************************************)
(* Tensors.  A tensor is the value it holds (a term saying which modules   *)
(* were applied to which chunk of which model input) with the dependency   *)
(* tokens joined into it.  Modules act on each row of a batch alone, so a  *)
(* whole mini-batch is the sequence of its chunks' values.                 *)
(***************************************************************************)
\* chunk c of model input k: microbatch.scatter(inputs[k], chunks)[c]
InputChunk(k, c) == [m |-> -1, o |-> k, c |-> c, a |-> <<>>]

\* output o of module m applied to the values args
Apply(m, o, args) == [m |-> m, o |-> o, c |-> -1, a |-> args]

NoneTerm == [m |-> -2, o |-> -2, c |-> -2, a |-> <<>>]

Tensor(val, device) == [val |-> val, deps |-> {}, device |-> device]

NoneTensor == [val |-> NoneTerm, deps |-> {}, device |-> "none"]

\* fairscale.nn.pipe.dependency.join(r, ph): r, made to depend on ph
join(r, ph) == [r EXCEPT !.deps = @ \cup {ph}]

\* Batch(values, index)
Batch(tensors, index) == [tensors |-> tensors, index |-> index]

NoneBatch == [tensors |-> <<>>, index |-> -1]

\* module(*args): the tuple of its output tensors ((result,) when the module
\* returns one tensor)
ModuleCall(g, module_idx, args) ==
    LET n == At(g.modules_list, module_idx).num_outputs
    IN IF n = NoneOutputs
       THEN << Apply(module_idx, 0, args) >>
       ELSE [k \in 1..n |-> Apply(module_idx, k - 1, args)]

\* MultiInputSequential.forward over the modules partition[at..]: the first
\* module takes all the inputs, each later one the single result so far
RECURSIVE SequentialForward(_, _, _, _)
SequentialForward(g, partition, at, input) ==
    IF at > Len(partition) THEN input
    ELSE SequentialForward(g, partition, at + 1,
                           ModuleCall(g, partition[at], IF at = 1 THEN input ELSE <<input[1]>>))

\* self.module(*tensors) of a partition handler, as a tuple
PartitionModule(g, partition, vals) == SequentialForward(g, partition, 1, vals)

\* microbatch.gather(batches): per output, the chunks' tensors concatenated
gather(batches) ==
    IF batches = <<>> THEN <<>>
    ELSE [k \in DOMAIN batches[1].tensors |->
             [c \in DOMAIN batches |-> batches[c].tensors[k].val]]

(***************************************************************************)
(* DistributedPipelineRecord.                                              *)
(***************************************************************************)
NoneEvent == [recorded |-> FALSE, by |-> <<-2, -2>>]

NoRecord ==
    [created |-> FALSE, tensors |-> <<>>, recv_events |-> <<>>, batches |-> <<>>,
     forwarded_phony |-> <<>>, users |-> <<>>, rank |-> -1, device |-> "none"]

DistributedPipelineRecord(device, rank, nchunks, num_input, users) ==
    [created |-> TRUE,
     tensors |-> [c \in 1..nchunks |-> [j \in 1..num_input |-> NoneTensor]],
     recv_events |-> [c \in 1..nchunks |-> [j \in 1..num_input |-> NoneEvent]],
     batches |-> [c \in 1..nchunks |-> NoneBatch],
     forwarded_phony |-> [c \in 1..nchunks |-> [j \in 1..num_input |-> <<>>]],
     users |-> users, rank |-> rank, device |-> device]

\* a remote call of feed: the record it goes to, its arguments, and who
\* issued it (partition and output slot, or -1 and the model input)
FeedCall(user, chunk, input_idx, input, from) ==
    [to |-> user, chunk |-> chunk, input_idx |-> input_idx, input |-> input, from |-> from]

\* the phony tensor feed returns: one per call
Phony(call) == [to |-> call.to, chunk |-> call.chunk, input_idx |-> call.input_idx,
                from |-> call.from]

IsCuda(device) == device \notin {"cpu", "none"}

\* 'if input.device.type == "cpu": input = input.to(self.device)'
MoveToRecord(rec, input) ==
    IF input.device = "cpu" THEN [input EXCEPT !.device = rec.device] ELSE input

\* feed without 'assert self.tensors[chunk][input_idx] is None'
feedUnchecked(rec, call) ==
    LET input == MoveToRecord(rec, call.input)
    IN [rec |-> [rec EXCEPT
                    !.recv_events[call.chunk + 1][call.input_idx + 1] =
                        IF IsCuda(input.device)
                        THEN [recorded |-> TRUE, by |-> call.from] ELSE NoneEvent,
                    !.tensors[call.chunk + 1][call.input_idx + 1] = input],
        err |-> "none"]

\* feed: the move to the record's device, then the body under ready_cv (the
\* notify_all is NotifyAll, below); err names the exception it raises
feed(rec, call) ==
    LET input == MoveToRecord(rec, call.input)
    IN IF ~(call.chunk < Len(rec.tensors) /\ call.input_idx < Len(At(rec.tensors, call.chunk)))
       THEN [rec |-> rec, err |-> "IndexError"]
       ELSE IF At(At(rec.tensors, call.chunk), call.input_idx) # NoneTensor
       THEN [rec |-> rec, err |-> "AssertionError"]
       ELSE [rec |-> [rec EXCEPT
                        !.recv_events[call.chunk + 1][call.input_idx + 1] =
                            IF IsCuda(input.device)
                            THEN [recorded |-> TRUE, by |-> call.from] ELSE NoneEvent,
                        !.tensors[call.chunk + 1][call.input_idx + 1] = input],
             err |-> "none"]

\* ChunkReady with 'all(b is None ...)' for 'any(b is None ...)'
ChunkReadyWhenAnyFed(rec, chunk) ==
    ~(At(rec.batches, chunk) = NoneBatch
      /\ \A j \in DOMAIN At(rec.tensors, chunk) : At(rec.tensors, chunk)[j] = NoneTensor)

\* the condition of the while loop of wait_for, negated: the wait is over
ChunkReady(rec, chunk) ==
    ~(At(rec.batches, chunk) = NoneBatch
      /\ \E j \in DOMAIN At(rec.tensors, chunk) : At(rec.tensors, chunk)[j] = NoneTensor)

\* wait_for taking the tensors of chunk 0 whatever the chunk
wait_for_first_chunk(rec, chunk) ==
    IF At(rec.batches, chunk) = NoneBatch
    THEN [rec |-> [rec EXCEPT !.batches[chunk + 1] = Batch(At(rec.tensors, 0), chunk)],
          assembled |-> TRUE]
    ELSE [rec |-> rec, assembled |-> FALSE]

\* wait_for that empties the slots of the chunk once the Batch is made
wait_for_clearing(rec, chunk) ==
    IF At(rec.batches, chunk) = NoneBatch
    THEN [rec |-> [rec EXCEPT !.batches[chunk + 1] = Batch(At(rec.tensors, chunk), chunk),
                              !.tensors[chunk + 1] = [j \in DOMAIN @ |-> NoneTensor]],
          assembled |-> TRUE]
    ELSE [rec |-> rec, assembled |-> FALSE]

\* wait_for once the wait is over: the record, and whether this call
\* constructed the Batch
wait_for(rec, chunk) ==
    IF At(rec.batches, chunk) = NoneBatch
    THEN [rec |-> [rec EXCEPT !.batches[chunk + 1] = Batch(At(rec.tensors, chunk), chunk)],
          assembled |-> TRUE]
    ELSE [rec |-> rec, assembled |-> FALSE]

\* ready_cv: the thread holding its lock (0: none) and the threads blocked
\* in ready_cv.wait()
FreeCondition == [owner |-> 0, waiters |-> {}]

\* notify_all without effect
NotifyNone(cv) == cv

\* self.ready_cv.notify_all()
NotifyAll(cv) == [cv EXCEPT !.waiters = {}]

(***************************************************************************)
(* PartitionHandler.                                                       *)
(***************************************************************************)
\* the condition under which fence injects the dependency
FenceApplies(rec, chunk) == chunk # 0 /\ rec.users # <<>> /\ rec.rank > 0

\* zip(batch.tensors, forwarded_phony[chunk - 1]): the positions paired
FenceZip(rec, chunk) ==
    1..(IF Len(At(rec.batches, chunk).tensors) < Len(At(rec.forwarded_phony, chunk - 1))
        THEN Len(At(rec.batches, chunk).tensors)
        ELSE Len(At(rec.forwarded_phony, chunk - 1)))

\* FencePhonies of a fence that joins the phonies without to_here()
FencePhoniesNotFetched(rec, chunk) == {}

\* the remote phonies fence fetches with to_here()
FencePhonies(rec, chunk) ==
    IF FenceApplies(rec, chunk)
    THEN UNION {Range(At(rec.forwarded_phony, chunk - 1)[k]) : k \in FenceZip(rec, chunk)}
    ELSE {}

RECURSIVE JoinAll(_, _)
JoinAll(r, remote_ph_list) ==
    IF remote_ph_list = <<>> THEN r
    ELSE JoinAll(join(r, Head(remote_ph_list)), Tail(remote_ph_list))

fence(rec, chunk) ==
    IF FenceApplies(rec, chunk)
    THEN [rec EXCEPT !.batches[chunk + 1] =
             Batch([k \in FenceZip(rec, chunk) |->
                       JoinAll(At(rec.batches, chunk).tensors[k],
                               At(rec.forwarded_phony, chunk - 1)[k])],
                   chunk)]
    ELSE rec

\* UseCheckpoint without 'if not self.module.training: checkpoint_stop = 0'
UseCheckpointInEval(handler, is_training, chunk) == chunk < handler.checkpoint_stop

\* compute: 'checkpoint = chunk < checkpoint_stop', after the eval-mode reset
UseCheckpoint(handler, is_training, chunk) ==
    chunk < (IF ~is_training THEN 0 ELSE handler.checkpoint_stop)

\* the closure 'function' run under Checkpointing: tuple(self.module(*input)),
\* put by Checkpointing.checkpoint into a Batch with the input batch's index;
\* the module's outputs are on the handler's device
CheckpointFunction(g, partition, device, batch) ==
    LET result == PartitionModule(g, partition, [k \in DOMAIN batch.tensors |-> batch.tensors[k].val])
    IN Batch([k \in DOMAIN result |-> Tensor(result[k], device)], batch.index)

\* the closure 'compute': Batch(self.module(*batch.tensors), chunk_id)
DirectCompute(g, partition, device, batch, chunk_id) ==
    LET result == PartitionModule(g, partition, [k \in DOMAIN batch.tensors |-> batch.tensors[k].val])
    IN Batch([k \in DOMAIN result |-> Tensor(result[k], device)], chunk_id)

\* the batch the task of compute hands back through out_queue
TaskOutput(g, partition, handler, is_training, rec, chunk) ==
    IF UseCheckpoint(handler, is_training, chunk)
    THEN CheckpointFunction(g, partition, handler.device, At(rec.batches, chunk))
    ELSE DirectCompute(g, partition, handler.device, At(rec.batches, chunk), chunk)

\* forward_results: the loop over users, from position n.  st = [rec, calls,
\* err]: the record, the remote feed calls issued so far, the exception.
RECURSIVE ForwardResultsLoop(_, _, _, _)
ForwardResultsLoop(st, part_idx, chunk, n) ==
    IF n > Len(st.rec.users) THEN st
    ELSE LET user == st.rec.users[n][1]
             input_idx == st.rec.users[n][2]
             output_idx == st.rec.users[n][3]
             batch == At(st.rec.batches, chunk)
         IN IF batch = NoneBatch THEN [st EXCEPT !.err = "AssertionError"]
            ELSE IF ~(output_idx < Len(batch.tensors)) THEN [st EXCEPT !.err = "IndexError"]
            ELSE IF ~(output_idx < Len(At(st.rec.forwarded_phony, chunk)))
            THEN [st EXCEPT !.err = "IndexError"]
            ELSE LET call == FeedCall(user, chunk, input_idx, At(batch.tensors, output_idx),
                                      <<part_idx, output_idx>>)
                 IN ForwardResultsLoop(
                        [st EXCEPT !.rec.forwarded_phony[chunk + 1][output_idx + 1] =
                                       Append(@, Phony(call)),
                                   !.calls = @ \cup {call}],
                        part_idx, chunk, n + 1)

forward_results(rec, part_idx, chunk) ==
    ForwardResultsLoop([rec |-> rec, calls |-> {}, err |-> "none"], part_idx, chunk, 1)

\* run_pipeline after run: the value returned; <<>> stands for None
RunPipelineResult(rec) ==
    IF rec.users = <<>>
    THEN IF Len(gather(rec.batches)) # 1
         THEN [err |-> "AssertionError", value |-> <<>>]
         ELSE [err |-> "none", value |-> gather(rec.batches)[1]]
    ELSE [err |-> "none", value |-> <<>>]

(***************************************************************************)
(* DistributedPipeline.forward: the users of one partition's outputs.      *)
(***************************************************************************)
\* the loop 'for user, input_idx, output_idx in output_users[last module]',
\* from position n.  st = [users, err].
RECURSIVE WireUsersLoop(_, _, _, _)
WireUsersLoop(st, pl, part_idx, n) ==
    LET out == At(pl.output_users, Last(At(pl.partitions, part_idx)))
    IN IF n > Len(out) THEN st
       ELSE IF ~HasPartitionOf(pl.partitions, out[n][1])
       THEN [st EXCEPT !.err = "StopIteration"]
       ELSE LET user_partition == PartitionOf(pl.partitions, out[n][1])
            IN IF ~(user_partition > part_idx)
               THEN [st EXCEPT !.err = "AssertionError"]
               ELSE WireUsersLoop(
                        [st EXCEPT !.users = Append(@, <<user_partition, out[n][2], out[n][3]>>)],
                        pl, part_idx, n + 1)

WireUsers(pl, part_idx) == WireUsersLoop([users |-> <<>>, err |-> "none"], pl, part_idx, 1)

(***************************************************************************)
(* State.                                                                  *)
(***************************************************************************)
VARIABLES
    graph,             \* the PipelineModulesGraph under construction / in use
    build_err,         \* the exception the last builder call raised
    pipe,              \* the DistributedPipeline (NoPipeline before construction)
    training,          \* module.training of the partitions' modules
    fwd,               \* the forward call: its position and loop variables
    pipeline_records,  \* forward's pipeline_records: one record per partition
    exec,              \* per partition: the run_pipeline call on its handler
    rpc,               \* remote feed calls issued and not yet run
    rpc_failed,        \* phonies of the feed calls that raised
    ready_cv,          \* SpecRecord: the Condition of the record under test
    threads,           \* SpecRecord: the threads calling feed and wait_for
    last_call          \* the client's last call on the pipeline API: arguments, outcome

graphVars == <<graph, build_err>>
runVars == <<fwd, pipeline_records, exec, rpc, rpc_failed>>
cvVars == <<ready_cv, threads>>
vars == <<graph, build_err, pipe, training, fwd, pipeline_records, exec, rpc, rpc_failed,
          ready_cv, threads, last_call>>

\* no call yet
NoClientCall == [op |-> "none"]

\* the call DistributedPipeline(graph, chunks, checkpoint)
ConstructorCall(nchunks, checkpoint) ==
    [op |-> "DistributedPipeline", chunks |-> nchunks, checkpoint |-> checkpoint]

NoForward == [pc |-> "idle", part_idx |-> 0, i |-> 0, f |-> 0]

\* a run_pipeline call not yet launched.  started / computed / forwarded
\* record the chunks whose compute was submitted, whose compute returned,
\* and for which forward_results ran; checkpointed those run under
\* Checkpointing.
NoExec ==
    [pc |-> "unlaunched", i |-> 0, exc |-> "none", ret |-> <<>>,
     started |-> {}, computed |-> {}, forwarded |-> {}, checkpointed |-> {}]

NumPartitions == Len(pipe.partitions)

(***************************************************************************)
(* The builder calls a client makes on a graph, before it constructs the   *)
(* pipeline.  A call that raises leaves the graph as the call left it.     *)
(***************************************************************************)
\* lists of one or two distinct modules passed to a builder call
ModuleLists ==
    {<<a>> : a \in ModulePool}
    \cup {l \in {<<a, b>> : a \in ModulePool, b \in ModulePool} : l[1] # l[2]}

Building == pipe.err = "unbuilt" /\ build_err = "none"

Built(r) ==
    /\ Len(r.g.modules_list) <= MaxModules
    /\ graph' = r.g
    /\ build_err' = r.err
    /\ UNCHANGED <<pipe, training, runVars, cvVars, last_call>>

AddSequence ==
    /\ Building
    /\ \E modules \in ModuleLists, first_input \in {<<>>} \cup {<<a>> : a \in ModulePool} :
          Built(add_sequence(graph, modules, first_input))

FeedModelInput ==
    /\ Building
    /\ \E module \in ModulePool : Built(feed_model_input(graph, module, 0))

AddMultiInputLayer ==
    /\ Building
    /\ \E module \in ModulePool, inputs \in ModuleLists :
          Built(add_multi_input_layer(graph, module, inputs))

FanOut ==
    /\ Building
    /\ \E module \in ModulePool, outputs \in ModuleLists :
          Built(fan_out(graph, module, outputs))

ReplicateOutput ==
    /\ Building
    /\ \E module \in ModulePool, outputs \in ModuleLists :
          Built(replicate_output(graph, module, outputs))

\* DistributedPipeline(graph, chunks, checkpoint)
Construct ==
    /\ Building
    /\ \E nchunks \in 0..1, checkpoint \in {"never", "sometimes"} :
          /\ pipe' = DistributedPipelineInit(graph, nchunks, checkpoint)
          /\ last_call' = ConstructorCall(nchunks, checkpoint)
    /\ UNCHANGED <<graphVars, training, runVars, cvVars>>

(***************************************************************************)
(* DistributedPipeline.forward.  The caller passes one tensor per model    *)
(* input the graph names, each with at least 'chunks' rows, so scatter     *)
(* yields exactly 'chunks' micro-batches per input.                        *)
(***************************************************************************)
\* the call, up to the loop over the partitions
ForwardCall ==
    /\ pipe.err = "none"
    /\ fwd.pc = "idle"
    /\ fwd' = IF NumPartitions = 0
              THEN [fwd EXCEPT !.pc = "UnboundLocalError"]
              ELSE [fwd EXCEPT !.pc = "wire", !.part_idx = NumPartitions - 1]
    /\ pipeline_records' = [p \in 1..NumPartitions |-> NoRecord]
    /\ exec' = [p \in 1..NumPartitions |-> NoExec]
    /\ UNCHANGED <<graphVars, pipe, training, rpc, rpc_failed, cvVars, last_call>>

\* one iteration of 'for part_idx in reversed(range(num_partitions))':
\* resolve the users, make the record, launch run_pipeline on it
ForwardWire ==
    /\ fwd.pc = "wire"
    /\ LET part_idx == fwd.part_idx
           w == WireUsers(pipe, part_idx)
           handler == At(pipe.partition_handlers, part_idx)
       IN IF w.err # "none"
          THEN /\ fwd' = [fwd EXCEPT !.pc = w.err]
               /\ UNCHANGED <<pipeline_records, exec, cvVars>>
          ELSE /\ pipeline_records' =
                      [pipeline_records EXCEPT ![part_idx + 1] =
                          DistributedPipelineRecord(handler.device, handler.rank,
                                                    handler.chunks, handler.num_input, w.users)]
               /\ exec' = [exec EXCEPT ![part_idx + 1].pc = "wait_for"]
               /\ fwd' = IF part_idx > 0
                         THEN [fwd EXCEPT !.part_idx = part_idx - 1]
                         ELSE IF pipe.input_feeds = <<>>
                         THEN [fwd EXCEPT !.pc = "returned"]
                         ELSE [fwd EXCEPT !.pc = "feed", !.i = 0, !.f = 0]
    /\ UNCHANGED <<graphVars, pipe, training, rpc, rpc_failed, cvVars, last_call>>

\* one iteration of the two loops feeding the model input: chunk i to the
\* consumer input_feeds[f]; after the last one forward returns
ForwardFeed ==
    /\ fwd.pc = "feed"
    /\ LET fi == At(pipe.input_feeds, fwd.f)[1]
           fj == At(pipe.input_feeds, fwd.f)[2]
           feed_idx == At(pipe.input_feeds, fwd.f)[3]
       IN rpc' = rpc \cup {FeedCall(fi, fwd.i, fj, Tensor(InputChunk(feed_idx, fwd.i), "cpu"),
                                    <<-1, feed_idx>>)}
    /\ fwd' = IF fwd.f + 1 < Len(pipe.input_feeds)
              THEN [fwd EXCEPT !.f = fwd.f + 1]
              ELSE IF fwd.i + 1 < pipe.chunks
              THEN [fwd EXCEPT !.i = fwd.i + 1, !.f = 0]
              ELSE [fwd EXCEPT !.pc = "returned"]
    /\ UNCHANGED <<graphVars, pipe, training, pipeline_records, exec, rpc_failed, cvVars, last_call>>

(***************************************************************************)
(* DistributedPipelineRecord.feed, run on the record's owner for a call    *)
(* that arrived.                                                           *)
(***************************************************************************)
Feed ==
    \E call \in rpc :
        LET r == feed(At(pipeline_records, call.to), call)
        IN /\ pipeline_records' = [pipeline_records EXCEPT ![call.to + 1] = r.rec]
           /\ rpc' = rpc \ {call}
           /\ rpc_failed' = IF r.err # "none" THEN rpc_failed \cup {Phony(call)} ELSE rpc_failed
           /\ UNCHANGED <<graphVars, pipe, training, fwd, exec, cvVars, last_call>>

(***************************************************************************)
(* PartitionHandler.run on partition p (position p + 1), one action per    *)
(* step of its loop body.                                                  *)
(***************************************************************************)
Partitions == 0..(Len(exec) - 1)

\* WaitFor that blocks on the first chunk whatever the chunk it waits for
WaitForFirstChunk(p) ==
    /\ At(exec, p).pc = "wait_for"
    /\ ChunkReady(At(pipeline_records, p), 0)
    /\ pipeline_records' = [pipeline_records EXCEPT ![p + 1] = wait_for(@, At(exec, p).i).rec]
    /\ exec' = [exec EXCEPT ![p + 1].pc = "fence"]
    /\ UNCHANGED <<graphVars, pipe, training, fwd, rpc, rpc_failed, cvVars, last_call>>

\* pipeline_record.wait_for(i)
WaitFor(p) ==
    /\ At(exec, p).pc = "wait_for"
    /\ ChunkReady(At(pipeline_records, p), At(exec, p).i)
    /\ pipeline_records' = [pipeline_records EXCEPT ![p + 1] = wait_for(@, At(exec, p).i).rec]
    /\ exec' = [exec EXCEPT ![p + 1].pc = "fence"]
    /\ UNCHANGED <<graphVars, pipe, training, fwd, rpc, rpc_failed, cvVars, last_call>>

\* self.fence(pipeline_record, i): every to_here() has returned
Fence(p) ==
    /\ At(exec, p).pc = "fence"
    /\ LET rec == At(pipeline_records, p)
           phonies == FencePhonies(rec, At(exec, p).i)
       IN /\ \A call \in rpc : Phony(call) \notin phonies
          /\ IF phonies \cap rpc_failed # {}
             THEN /\ exec' = [exec EXCEPT ![p + 1].pc = "raised",
                                          ![p + 1].exc = "RemoteError"]
                  /\ UNCHANGED pipeline_records
             ELSE /\ pipeline_records' =
                         [pipeline_records EXCEPT ![p + 1] = fence(@, At(exec, p).i)]
                  /\ exec' = [exec EXCEPT ![p + 1].pc = "compute"]
    /\ UNCHANGED <<graphVars, pipe, training, fwd, rpc, rpc_failed, cvVars, last_call>>

\* compute up to self.in_queue.put(task)
ComputeSubmit(p) ==
    /\ At(exec, p).pc = "compute"
    /\ LET i == At(exec, p).i
       IN IF At(At(pipeline_records, p).batches, i) = NoneBatch
          THEN exec' = [exec EXCEPT ![p + 1].pc = "raised", ![p + 1].exc = "AssertionError"]
          ELSE exec' = [exec EXCEPT
                           ![p + 1].pc = "computing",
                           ![p + 1].started = @ \cup {i},
                           ![p + 1].checkpointed =
                               IF UseCheckpoint(At(pipe.partition_handlers, p), training, i)
                               THEN @ \cup {i} ELSE @]
    /\ UNCHANGED <<graphVars, pipe, training, fwd, pipeline_records, rpc, rpc_failed, cvVars, last_call>>

\* out_queue.get() returns (True, (task, batch)): finalize, store the batch
ComputeDone(p) ==
    /\ At(exec, p).pc = "computing"
    /\ LET i == At(exec, p).i
       IN /\ pipeline_records' =
                 [pipeline_records EXCEPT ![p + 1].batches[i + 1] =
                     TaskOutput(graph, At(pipe.partitions, p), At(pipe.partition_handlers, p),
                                training, At(pipeline_records, p), i)]
          /\ exec' = [exec EXCEPT ![p + 1].pc = "forward_results",
                                  ![p + 1].computed = @ \cup {i}]
    /\ UNCHANGED <<graphVars, pipe, training, fwd, rpc, rpc_failed, cvVars, last_call>>

\* ComputeFail that notes the exception and goes on with the next chunk
ComputeFailNextChunk(p) ==
    /\ At(exec, p).pc = "computing"
    /\ exec' = IF At(exec, p).i + 1 < Len(At(pipeline_records, p).batches)
               THEN [exec EXCEPT ![p + 1].pc = "wait_for", ![p + 1].i = @ + 1,
                                 ![p + 1].exc = "ComputeError"]
               ELSE [exec EXCEPT ![p + 1].pc = "ran", ![p + 1].exc = "ComputeError"]
    /\ UNCHANGED <<graphVars, pipe, training, fwd, pipeline_records, rpc, rpc_failed, cvVars, last_call>>

\* ComputeFail that notes the exception and forwards the chunk's batch
ComputeFailForwards(p) ==
    /\ At(exec, p).pc = "computing"
    /\ exec' = [exec EXCEPT ![p + 1].pc = "forward_results", ![p + 1].exc = "ComputeError"]
    /\ UNCHANGED <<graphVars, pipe, training, fwd, pipeline_records, rpc, rpc_failed, cvVars, last_call>>

\* out_queue.get() returns (False, exc_info): the exception is raised
ComputeFail(p) ==
    /\ At(exec, p).pc = "computing"
    /\ exec' = [exec EXCEPT ![p + 1].pc = "raised", ![p + 1].exc = "ComputeError"]
    /\ UNCHANGED <<graphVars, pipe, training, fwd, pipeline_records, rpc, rpc_failed, cvVars, last_call>>

\* self.forward_results(i, pipeline_record), then the next iteration
ForwardResults(p) ==
    /\ At(exec, p).pc = "forward_results"
    /\ LET i == At(exec, p).i
           r == forward_results(At(pipeline_records, p), p, i)
       IN /\ pipeline_records' = [pipeline_records EXCEPT ![p + 1] = r.rec]
          /\ rpc' = rpc \cup r.calls
          /\ exec' = IF r.err # "none"
                     THEN [exec EXCEPT ![p + 1].pc = "raised", ![p + 1].exc = r.err]
                     ELSE IF i + 1 < Len(At(pipeline_records, p).batches)
                     THEN [exec EXCEPT ![p + 1].pc = "wait_for", ![p + 1].i = i + 1,
                                       ![p + 1].forwarded = @ \cup {i}]
                     ELSE [exec EXCEPT ![p + 1].pc = "ran",
                                       ![p + 1].forwarded = @ \cup {i}]
    /\ UNCHANGED <<graphVars, pipe, training, fwd, rpc_failed, cvVars, last_call>>

\* run_pipeline after self.run: gather on a partition without users
RunPipelineReturn(p) ==
    /\ At(exec, p).pc = "ran"
    /\ LET r == RunPipelineResult(At(pipeline_records, p))
       IN exec' = IF r.err # "none"
                  THEN [exec EXCEPT ![p + 1].pc = "raised", ![p + 1].exc = r.err]
                  ELSE [exec EXCEPT ![p + 1].pc = "returned", ![p + 1].ret = r.value]
    /\ UNCHANGED <<graphVars, pipe, training, fwd, pipeline_records, rpc, rpc_failed, cvVars, last_call>>

(***************************************************************************)
(* SpecGraph: a client builds a graph call by call, constructs the         *)
(* pipeline and calls forward, which wires the partitions.                 *)
(***************************************************************************)
InitGraph ==
    /\ graph = EmptyGraph
    /\ build_err = "none"
    /\ pipe = NoPipeline
    /\ training = TRUE
    /\ fwd = NoForward
    /\ pipeline_records = <<>>
    /\ exec = <<>>
    /\ rpc = {}
    /\ rpc_failed = {}
    /\ ready_cv = FreeCondition
    /\ threads = <<>>
    /\ last_call = NoClientCall

NextGraph ==
    \/ AddSequence
    \/ FeedModelInput
    \/ AddMultiInputLayer
    \/ FanOut
    \/ ReplicateOutput
    \/ Construct
    \/ ForwardCall
    \/ ForwardWire

SpecGraph == InitGraph /\ [][NextGraph]_vars

(***************************************************************************)
(* Spec: forward calls on pipelines constructed from graphs built with the *)
(* builder API, every partition's run_pipeline running concurrently.       *)
(***************************************************************************)
\* A -> B -> C, with A and B on one worker and C on another
ChainGraph ==
    feed_model_input(add_sequence(EmptyGraph, <<ModA, ModB, ModC>>, <<>>).g, ModA, 0).g

\* A's output replicated to B and C, both consumed by D
DiamondGraph ==
    add_multi_input_layer(
        replicate_output(feed_model_input(EmptyGraph, ModA, 0).g, ModA, <<ModB, ModC>>).g,
        ModD, <<ModB, ModC>>).g

\* S's two outputs fanned out to A and C, both consumed by D
FanOutGraph ==
    add_multi_input_layer(
        fan_out(feed_model_input(EmptyGraph, ModS, 0).g, ModS, <<ModA, ModC>>).g,
        ModD, <<ModA, ModC>>).g

\* two model inputs, fed to A and to E, both consumed by D
TwoInputGraph ==
    add_multi_input_layer(
        feed_model_input(feed_model_input(EmptyGraph, ModA, 0).g, ModE, 1).g,
        ModD, <<ModA, ModE>>).g

RunGraphs == {ChainGraph, DiamondGraph, FanOutGraph, TwoInputGraph}

Init ==
    /\ graph \in RunGraphs
    /\ build_err = "none"
    /\ \E nchunks \in 1..MaxChunks, checkpoint \in CheckpointModes :
          /\ pipe = DistributedPipelineInit(graph, nchunks, checkpoint)
          /\ last_call = ConstructorCall(nchunks, checkpoint)
    /\ training \in BOOLEAN
    /\ fwd = NoForward
    /\ pipeline_records = <<>>
    /\ exec = <<>>
    /\ rpc = {}
    /\ rpc_failed = {}
    /\ ready_cv = FreeCondition
    /\ threads = <<>>

Next ==
    \/ ForwardCall
    \/ ForwardWire
    \/ ForwardFeed
    \/ Feed
    \/ \E p \in Partitions : WaitFor(p)
    \/ \E p \in Partitions : Fence(p)
    \/ \E p \in Partitions : ComputeSubmit(p)
    \/ \E p \in Partitions : ComputeDone(p)
    \/ \E p \in Partitions : ComputeFail(p)
    \/ \E p \in Partitions : ForwardResults(p)
    \/ \E p \in Partitions : RunPipelineReturn(p)

Spec == Init /\ [][Next]_vars

(***************************************************************************)
(* SpecRecord: one DistributedPipelineRecord, with threads that call feed  *)
(* on it (one remote call each) and one thread that calls wait_for, all    *)
(* running concurrently.  Each step of a thread is one acquisition of the  *)
(* lock of ready_cv, or the code it runs while it holds that lock.         *)
(***************************************************************************)
\* the threads that call feed: one remote call each
NumFeeders == 3

\* the number of wait_for calls the waiting thread makes
MaxWaits == 2

\* the largest num_input of the record
MaxInputs == 2

Feeders == 1..NumFeeders

Waiter == NumFeeders + 1

NoCall == FeedCall(-1, -1, -1, NoneTensor, <<-2, -2>>)

\* a thread before its first call.  returned counts the wait_for calls that
\* returned; assembled counts, per chunk, the Batch constructions of wait_for
IdleThread(nchunks) ==
    [pc |-> "idle", call |-> NoCall, chunk |-> -1, result |-> "none",
     returned |-> 0, assembled |-> [c \in 1..nchunks |-> 0]]

TheRecord == pipeline_records[1]

\* the device of the tensor a caller feeds: the first caller's tensor is on
\* a GPU of its own, the others' are on the CPU
CallerDevice(t) == IF t = 1 THEN "cuda:1" ELSE "cpu"

\* a remote caller invokes feed(chunk, input_idx, input)
FeedBegin(t) ==
    /\ threads[t].pc = "idle"
    /\ \E chunk \in 0..(Len(TheRecord.tensors) - 1),
          input_idx \in 0..(Len(At(TheRecord.tensors, 0)) - 1) :
          threads' = [threads EXCEPT
              ![t].pc = "feed_lock",
              ![t].call = FeedCall(0, chunk, input_idx,
                                   Tensor(InputChunk(t, chunk), CallerDevice(t)), <<-1, t>>)]
    /\ UNCHANGED <<graphVars, pipe, training, runVars, ready_cv, last_call>>

\* 'with self.ready_cv:' of feed
FeedAcquire(t) ==
    /\ threads[t].pc = "feed_lock"
    /\ ready_cv.owner = 0
    /\ ready_cv' = [ready_cv EXCEPT !.owner = t]
    /\ threads' = [threads EXCEPT ![t].pc = "feed_body"]
    /\ UNCHANGED <<graphVars, pipe, training, runVars, last_call>>

\* the body of feed under the lock, and the release of the lock on the way
\* out of the with block (by the return or by the AssertionError)
FeedBody(t) ==
    /\ threads[t].pc = "feed_body"
    /\ LET r == feed(TheRecord, threads[t].call)
       IN /\ pipeline_records' = [pipeline_records EXCEPT ![1] = r.rec]
          /\ ready_cv' = [(IF r.err = "none" THEN NotifyAll(ready_cv) ELSE ready_cv)
                             EXCEPT !.owner = 0]
          /\ threads' = [threads EXCEPT
                ![t].pc = "done",
                ![t].result = IF r.err = "none" THEN "phony" ELSE r.err]
    /\ UNCHANGED <<graphVars, pipe, training, fwd, exec, rpc, rpc_failed, last_call>>

\* the executor thread calls wait_for(chunk)
WaitForBegin(t) ==
    /\ threads[t].pc = "idle"
    /\ threads[t].returned < MaxWaits
    /\ \E chunk \in 0..(Len(TheRecord.tensors) - 1) :
          threads' = [threads EXCEPT ![t].pc = "wait_lock", ![t].chunk = chunk]
    /\ UNCHANGED <<graphVars, pipe, training, runVars, ready_cv, last_call>>

\* 'with self.ready_cv:' of wait_for
WaitForAcquire(t) ==
    /\ threads[t].pc = "wait_lock"
    /\ ready_cv.owner = 0
    /\ ready_cv' = [ready_cv EXCEPT !.owner = t]
    /\ threads' = [threads EXCEPT ![t].pc = "wait_test"]
    /\ UNCHANGED <<graphVars, pipe, training, runVars, last_call>>

\* WaitForTest whose ready_cv.wait() blocks without releasing the lock
WaitForTestHoldingLock(t) ==
    /\ threads[t].pc = "wait_test"
    /\ IF ~ChunkReady(TheRecord, threads[t].chunk)
       THEN /\ ready_cv' = [ready_cv EXCEPT !.waiters = @ \cup {t}]
            /\ threads' = [threads EXCEPT ![t].pc = "wait_blocked"]
            /\ UNCHANGED pipeline_records
       ELSE LET w == wait_for(TheRecord, threads[t].chunk)
            IN /\ pipeline_records' = [pipeline_records EXCEPT ![1] = w.rec]
               /\ ready_cv' = [ready_cv EXCEPT !.owner = 0]
               /\ threads' = [threads EXCEPT
                     ![t].pc = "idle",
                     ![t].returned = @ + 1,
                     ![t].assembled[threads[t].chunk + 1] =
                         IF w.assembled THEN @ + 1 ELSE @]
    /\ UNCHANGED <<graphVars, pipe, training, fwd, exec, rpc, rpc_failed, last_call>>

\* the test of the while loop under the lock: either ready_cv.wait(), which
\* releases the lock and blocks, or the rest of wait_for and the release
WaitForTest(t) ==
    /\ threads[t].pc = "wait_test"
    /\ IF ~ChunkReady(TheRecord, threads[t].chunk)
       THEN /\ ready_cv' = [owner |-> 0, waiters |-> ready_cv.waiters \cup {t}]
            /\ threads' = [threads EXCEPT ![t].pc = "wait_blocked"]
            /\ UNCHANGED pipeline_records
       ELSE LET w == wait_for(TheRecord, threads[t].chunk)
            IN /\ pipeline_records' = [pipeline_records EXCEPT ![1] = w.rec]
               /\ ready_cv' = [ready_cv EXCEPT !.owner = 0]
               /\ threads' = [threads EXCEPT
                     ![t].pc = "idle",
                     ![t].returned = @ + 1,
                     ![t].assembled[threads[t].chunk + 1] =
                         IF w.assembled THEN @ + 1 ELSE @]
    /\ UNCHANGED <<graphVars, pipe, training, fwd, exec, rpc, rpc_failed, last_call>>

\* ready_cv.wait() returns: the thread was notified and takes the lock again
WaitForWake(t) ==
    /\ threads[t].pc = "wait_blocked"
    /\ t \notin ready_cv.waiters
    /\ ready_cv.owner = 0
    /\ ready_cv' = [ready_cv EXCEPT !.owner = t]
    /\ threads' = [threads EXCEPT ![t].pc = "wait_test"]
    /\ UNCHANGED <<graphVars, pipe, training, runVars, last_call>>

InitRecord ==
    /\ graph = EmptyGraph
    /\ build_err = "none"
    /\ pipe = NoPipeline
    /\ training = FALSE
    /\ fwd = NoForward
    /\ \E device \in {"cpu", "cuda:0"}, nchunks \in 1..MaxChunks, num_input \in 1..MaxInputs :
          /\ pipeline_records = <<DistributedPipelineRecord(device, 0, nchunks, num_input, <<>>)>>
          /\ threads = [t \in 1..Waiter |-> IdleThread(nchunks)]
    /\ exec = <<>>
    /\ rpc = {}
    /\ rpc_failed = {}
    /\ ready_cv = FreeCondition
    /\ last_call = NoClientCall

NextRecord ==
    \/ \E t \in Feeders : FeedBegin(t)
    \/ \E t \in Feeders : FeedAcquire(t)
    \/ \E t \in Feeders : FeedBody(t)
    \/ WaitForBegin(Waiter)
    \/ WaitForAcquire(Waiter)
    \/ WaitForTest(Waiter)
    \/ WaitForWake(Waiter)

\* a thread that can take a step eventually takes it; nothing obliges a
\* caller to begin a call
SpecRecord ==
    /\ InitRecord
    /\ [][NextRecord]_vars
    /\ \A t \in Feeders : WF_vars(FeedAcquire(t)) /\ WF_vars(FeedBody(t))
    /\ WF_vars(WaitForAcquire(Waiter))
    /\ WF_vars(WaitForTest(Waiter))
    /\ WF_vars(WaitForWake(Waiter))

(***************************************************************************)
(* SpecSequence: a client calls create_sequence_pipeline on a list of      *)
(* modules not yet assigned a remote device, then calls cuda, cpu or to on *)
(* the pipeline it got.                                                    *)
(***************************************************************************)
\* the longest list of layers, of counts and of devices
MaxLayers == 3

\* the largest count in a balance
MaxCount == 3

LayerA == PipelineModule("A", 1, NoneOutputs, "unset", "unset")

LayerB == PipelineModule("B", 1, NoneOutputs, "unset", "unset")

\* a layer that returns a tuple of two tensors
LayerT == PipelineModule("T", 1, 2, "unset", "unset")

LayerPool == {LayerA, LayerB, LayerT}

\* remote devices "w0/cpu", "w0/cuda:0", "w1/cpu", split at "/"
RemoteDevices == {<<"w0", "cpu">>, <<"w0", "cuda:0">>, <<"w1", "cpu">>}

ListsOver(S, n) == UNION {[1..k -> S] : k \in 0..n}

\* non-empty lists of distinct layers
LayerLists ==
    {l \in ListsOver(LayerPool, MaxLayers) :
        l # <<>> /\ \A i \in DOMAIN l, j \in DOMAIN l : i # j => l[i] # l[j]}

BalanceLists == ListsOver(-1..MaxCount, MaxLayers)

DeviceLists == ListsOver(RemoteDevices, MaxLayers)

\* the positional arguments of to that nn.Module.to has a signature for:
\* to(device[, dtype[, non_blocking]]), to(tensor[, non_blocking]),
\* to(dtype[, non_blocking]), each also with keywords
ToArgs ==
    {<<>>, <<"device">>, <<"int">>, <<"str">>, <<"device", "dtype">>,
     <<"str", "dtype", "bool">>, <<"tensor">>, <<"tensor", "bool">>,
     <<"dtype">>, <<"dtype", "bool">>}

ToKwargs == SUBSET {"device", "tensor", "dtype"}

CreateSequencePipeline ==
    /\ last_call.op = "none"
    /\ \E layers \in LayerLists, balance \in BalanceLists, devices \in DeviceLists :
          LET r == create_sequence_pipeline(layers, balance, devices)
          IN /\ graph' = r.g
             /\ pipe' = r.pipe
             /\ build_err' = r.err
             /\ last_call' = [op |-> "create_sequence_pipeline", layers |-> layers,
                              balance |-> balance, devices |-> devices, raised |-> r.err]
    /\ UNCHANGED <<training, runVars, cvVars>>

Assembled == pipe.err = "none"

\* a call that raises or goes on to nn.Module.to, which finds no parameter
\* or buffer of the pipeline on this worker: the partitions are remote
Moved(call) ==
    /\ Assembled
    /\ last_call' = call
    /\ UNCHANGED <<graphVars, pipe, training, runVars, cvVars>>

Cuda == \E device \in {"none", "int", "device"} :
            Moved([op |-> "cuda", args |-> <<device>>, kwargs |-> {}, raised |-> cuda(device)])

Cpu == Moved([op |-> "cpu", args |-> <<>>, kwargs |-> {}, raised |-> cpu])

To == \E args \in ToArgs, kwargs \in ToKwargs :
          Moved([op |-> "to", args |-> args, kwargs |-> kwargs, raised |-> to(args, kwargs)])

InitSequence ==
    /\ graph = EmptyGraph
    /\ build_err = "none"
    /\ pipe = NoPipeline
    /\ training = TRUE
    /\ fwd = NoForward
    /\ pipeline_records = <<>>
    /\ exec = <<>>
    /\ rpc = {}
    /\ rpc_failed = {}
    /\ ready_cv = FreeCondition
    /\ threads = <<>>
    /\ last_call = NoClientCall

NextSequence == CreateSequencePipeline \/ Cuda \/ Cpu \/ To

SpecSequence == InitSequence /\ [][NextSequence]_vars

(***************************************************************************)
(* Properties of the graph and of its partitions.                          *)
(***************************************************************************)
ModuleIndices(g) == 0..(Len(g.modules_list) - 1)

AllAssigned(g) == \A p \in DOMAIN g.inputs : g.inputs[p] # NoneInputs

\* the modules module i takes an input from
Sources(g, i) ==
    IF At(g.inputs, i) = NoneInputs THEN {}
    ELSE {At(g.inputs, i)[j][1] : j \in DOMAIN At(g.inputs, i)} \ {-1}

\* every input comes from the model input or from a module of smaller index
IndexOrdered(g) == \A i \in ModuleIndices(g) : \A src \in Sources(g, i) : src < i

\* the modules reached from the set S along 1..n source edges
RECURSIVE Upstream(_, _, _)
Upstream(g, S, n) ==
    IF n = 0 THEN {}
    ELSE LET T == UNION {Sources(g, i) : i \in S}
         IN T \cup Upstream(g, T, n - 1)

Acyclic(g) == \A i \in ModuleIndices(g) : i \notin Upstream(g, {i}, Len(g.modules_list))

PartitionsDisjoint(partitions) ==
    \A a, b \in DOMAIN partitions : \A x \in DOMAIN partitions[a], y \in DOMAIN partitions[b] :
        (a # b \/ x # y) => partitions[a][x] # partitions[b][y]

PartitionsCover(g, partitions) ==
    UNION {Range(partitions[a]) : a \in DOMAIN partitions} = ModuleIndices(g)

\* DistributedPipeline(...) got past its argument checks, into _split_module
SplitRan == pipe.err \notin {"unbuilt", "ValueError", "GraphError"}

ConsumerPartitions(pl, p) ==
    LET out == At(pl.output_users, Last(At(pl.partitions, p)))
    IN {q \in 0..(Len(pl.partitions) - 1) :
           \E n \in DOMAIN out : At(pl.partitions, q)[1] = out[n][1]}

\* C4, as stated: for every graph from which a DistributedPipeline is
\* constructed, the partitions are ordered by their first module, every
\* partition that consumes an output of partition p has an index greater
\* than p, and the assertion 'user_partition > part_idx' of forward never
\* fails.
C4_ConsumersFollowProducers ==
    /\ pipe.err = "none" =>
          /\ \A a, b \in DOMAIN pipe.partitions :
                a < b => pipe.partitions[a][1] < pipe.partitions[b][1]
          /\ \A p \in 0..(Len(pipe.partitions) - 1) :
                \A q \in ConsumerPartitions(pipe, p) : q > p
    /\ fwd.pc # "AssertionError"

(***************************************************************************)
(* Properties of a forward call.                                           *)
(***************************************************************************)
\* The unpartitioned graph on chunk c of the model inputs: output k of
\* module i, each module applied to its declared sources.
RECURSIVE RefOut(_, _, _, _)
RefOut(g, i, k, c) ==
    Apply(i, k, [j \in DOMAIN At(g.inputs, i) |->
                    IF At(g.inputs, i)[j][1] = -1
                    THEN InputChunk(At(g.inputs, i)[j][2], c)
                    ELSE RefOut(g, At(g.inputs, i)[j][1], At(g.inputs, i)[j][2], c)])

\* The unpartitioned, unchunked graph on the whole mini-batch: the output of
\* the graph's last module, row block by row block.
Unpartitioned(g, nchunks) ==
    [c \in 1..nchunks |-> RefOut(g, Len(g.modules_list) - 1, 0, c - 1)]

Launched == exec # <<>>

\* the partition whose run_pipeline result forward returns
TerminalPartition == NumPartitions - 1

\* C1: whatever the graph, the chunk count and the checkpoint mode, the
\* value forward returns (the terminal partition's gathered result) is, in
\* chunk order, the graph's modules applied along the declared connections
\* to that chunk of the model inputs: the unpartitioned, unchunked graph on
\* the same input.
C1_ForwardEqualsUnpartitioned ==
    (Launched /\ At(exec, TerminalPartition).pc = "returned")
        => At(exec, TerminalPartition).ret = Unpartitioned(graph, pipe.chunks)

\* C1's case: the chain A -> B -> C split in two partitions returned the
\* result of two chunks, some of them run under checkpointing
C1_Witness ==
    /\ Launched /\ At(exec, TerminalPartition).pc = "returned"
    /\ graph = ChainGraph /\ NumPartitions = 2 /\ pipe.chunks = 2
    /\ At(exec, 0).checkpointed # {}

\* the input slots of chunk c of partition p are all filled: every feed
\* call for that chunk completed
AllFed(p, c) ==
    \A j \in DOMAIN At(At(pipeline_records, p).tensors, c) :
        At(At(pipeline_records, p).tensors, c)[j] # NoneTensor

\* C2: within one partition, compute of chunk c starts only after every
\* input slot of chunk c was fed, and only after every earlier chunk was
\* computed and forwarded; chunks are computed in increasing order.
C2_ChunksInOrder ==
    \A p \in Partitions :
        /\ At(exec, p).computed \subseteq At(exec, p).started
        /\ At(exec, p).forwarded \subseteq At(exec, p).computed
        /\ \A c \in At(exec, p).started :
              /\ AllFed(p, c)
              /\ \A b \in 0..(c - 1) :
                    b \in At(exec, p).computed /\ b \in At(exec, p).forwarded

\* C2's case: a partition with two inputs started the compute of its second
\* chunk while another partition has not returned yet
C2_Witness ==
    \E p \in Partitions :
        /\ At(pipe.partition_handlers, p).num_input = 2
        /\ 1 \in At(exec, p).started
        /\ \E q \in Partitions : At(exec, q).pc # "returned" /\ q # p

\* the calls of feed partition p issued for chunk c that have not run yet,
\* and the slots of other records they filled
IssuedBy(p, c) ==
    \/ \E call \in rpc : call.from[1] = p /\ call.chunk = c
    \/ \E k \in DOMAIN At(At(pipeline_records, p).forwarded_phony, c) :
          At(At(pipeline_records, p).forwarded_phony, c)[k] # <<>>

\* C9: when the compute task of chunk c of a partition fails, run raises
\* that exception; chunk c is not computed again, forward_results does not
\* run for it, no later chunk is waited for, computed or forwarded, and the
\* results of the earlier chunks have been forwarded.
C9_ComputeFailureAbortsLoop ==
    \A p \in Partitions :
        At(exec, p).exc = "ComputeError" =>
            LET c == At(exec, p).i
            IN /\ At(exec, p).pc = "raised"
               /\ c \in At(exec, p).started
               /\ c \notin At(exec, p).computed
               /\ ~IssuedBy(p, c)
               /\ \A b \in 0..(c - 1) : b \in At(exec, p).forwarded
               /\ \A d \in (c + 1)..(pipe.chunks - 1) :
                     /\ At(At(pipeline_records, p).batches, d) = NoneBatch
                     /\ d \notin At(exec, p).started
                     /\ ~IssuedBy(p, d)

\* C9's case: the second chunk's compute failed on a partition with users,
\* after the first chunk was forwarded
C9_Witness ==
    \E p \in Partitions :
        /\ At(exec, p).exc = "ComputeError"
        /\ At(exec, p).i = 1
        /\ pipe.chunks > 2 \/ pipe.chunks = 2
        /\ At(pipeline_records, p).users # <<>>
        /\ 0 \in At(exec, p).forwarded

\* the partitions that need an output of partition p, directly or not
RECURSIVE Downstream(_, _)
Downstream(S, n) ==
    IF n = 0 THEN {}
    ELSE LET T == {q \in Partitions :
                      \E p \in S : \E u \in DOMAIN At(pipeline_records, p).users :
                          At(pipeline_records, p).users[u][1] = q}
         IN T \cup Downstream(T, n - 1)

\* C10: after the compute of chunk c failed on partition p, nothing tells
\* the other partitions: a partition that needs p's output never gets ready
\* for chunk c (it is at c or before, and at c it is in wait_for), never
\* completes its run, and raises nothing but a compute failure of its own.
C10_DownstreamStaysBlocked ==
    \A p \in Partitions :
        At(exec, p).exc = "ComputeError" =>
            \A q \in Downstream({p}, NumPartitions) :
                /\ At(At(pipeline_records, q).batches, At(exec, p).i) = NoneBatch
                /\ At(exec, q).i <= At(exec, p).i
                /\ At(exec, q).i = At(exec, p).i => At(exec, q).pc = "wait_for"
                /\ At(exec, q).pc \notin {"ran", "returned"}
                /\ At(exec, q).exc \in {"none", "ComputeError"}

\* C10's case: the compute of the second chunk failed upstream, and a
\* consumer, done with the first chunk, waits for the second, of which the
\* other input has arrived
C10_Witness ==
    \E p \in Partitions :
        /\ At(exec, p).exc = "ComputeError" /\ At(exec, p).i = 1
        /\ \E q \in Downstream({p}, 1) :
              /\ At(exec, q).pc = "wait_for" /\ At(exec, q).i = 1
              /\ \E j \in DOMAIN At(At(pipeline_records, q).tensors, 1) :
                    At(At(pipeline_records, q).tensors, 1)[j] # NoneTensor

\* a compute step failed somewhere
SomeComputeFailed == \E p \in Partitions : At(exec, p).exc = "ComputeError"

\* every partition finished its K chunks and its run_pipeline returned
AllReturned == Launched /\ \A p \in Partitions : At(exec, p).pc = "returned"

\* C5, as stated: if no compute step fails, then once forward launched the
\* partitions and fed every chunk, every partition finishes its chunks and
\* the terminal partition returns the result: the pipeline never comes to a
\* stop with a partition unfinished.
C5_NoPartitionStuck ==
    (fwd.pc = "returned" /\ ~SomeComputeFailed /\ ~ENABLED Next) => AllReturned


(***************************************************************************)
(* Properties of one record under concurrent feed and wait_for calls.      *)
(***************************************************************************)
\* thread t holds the lock with a feed for a slot that is already filled
FeedsFilledSlot(t) ==
    /\ threads[t].pc = "feed_body"
    /\ At(At(TheRecord.tensors, threads[t].call.chunk), threads[t].call.input_idx) # NoneTensor

\* C6: a feed call on a slot that is already filled ends with an
\* AssertionError and leaves the whole record as it was (the stored tensor
\* and the event of the slot included); and no step ever changes the tensor
\* or the event of a filled slot.
C6_FeedOnFilledSlotFails ==
    [][ /\ \A t \in DOMAIN threads :
              (FeedsFilledSlot(t) /\ threads'[t].pc = "done")
                  => /\ threads'[t].result = "AssertionError"
                     /\ pipeline_records' = pipeline_records
        /\ \A r \in DOMAIN pipeline_records :
           \A c \in DOMAIN pipeline_records[r].tensors :
           \A j \in DOMAIN pipeline_records[r].tensors[c] :
              (threads # <<>> /\ pipeline_records[r].tensors[c][j] # NoneTensor)
                  => /\ pipeline_records'[r].tensors[c][j] = pipeline_records[r].tensors[c][j]
                     /\ pipeline_records'[r].recv_events[c][j]
                            = pipeline_records[r].recv_events[c][j] ]_vars

\* C6's case: a feed on a filled slot has failed, and the slot holds the
\* tensor of another caller
C6_Witness ==
    \E t \in DOMAIN threads :
        /\ threads[t].pc = "done"
        /\ threads[t].result = "AssertionError"
        /\ At(At(TheRecord.tensors, threads[t].call.chunk), threads[t].call.input_idx).val
               # threads[t].call.input.val

\* the wait_for calls that returned so far found the chunk complete
WaitReturnedOn(t, chunk) ==
    /\ threads[t].chunk = chunk
    /\ threads[t].returned > 0
    /\ threads[t].pc = "idle"

\* C7: when a wait_for(chunk) call has returned, every slot of the chunk is
\* filled and the chunk's batch is the Batch of the slots' tensors, in slot
\* order, with the chunk's index; the batch of a chunk is constructed at
\* most once, and once it exists no wait_for call changes it.
C7_WaitForAssemblesOnce ==
    /\ [](\A t \in DOMAIN threads :
             /\ \A c \in DOMAIN threads[t].assembled : threads[t].assembled[c] <= 1
             /\ \A chunk \in 0..(MaxChunks - 1) :
                   WaitReturnedOn(t, chunk)
                       => /\ \A j \in DOMAIN At(TheRecord.tensors, chunk) :
                                At(TheRecord.tensors, chunk)[j] # NoneTensor
                          /\ At(TheRecord.batches, chunk)
                                 = [tensors |-> At(TheRecord.tensors, chunk), index |-> chunk])
    /\ [][ \A r \in DOMAIN pipeline_records :
           \A c \in DOMAIN pipeline_records[r].batches :
              (threads # <<>> /\ pipeline_records[r].batches[c] # NoneBatch)
                  => pipeline_records'[r].batches[c] = pipeline_records[r].batches[c] ]_vars

\* C7's case: a second wait_for call on a chunk of two slots has returned,
\* and it did not construct the batch again
C7_Witness ==
    /\ threads # <<>>
    /\ threads[Waiter].pc = "idle"
    /\ threads[Waiter].returned = 2
    /\ threads[Waiter].chunk >= 0
    /\ Len(At(TheRecord.tensors, threads[Waiter].chunk)) = 2
    /\ Sum(threads[Waiter].assembled) = 1
    /\ At(TheRecord.batches, threads[Waiter].chunk) # NoneBatch

\* the feed call of thread t has stored its input (moved to the record's
\* device) in its slot
Stored(t) ==
    At(At(TheRecord.tensors, threads[t].call.chunk), threads[t].call.input_idx)
        = MoveToRecord(TheRecord, threads[t].call.input)

\* the wait_for call in progress is for a chunk whose slots are all filled
WaiterChunkComplete ==
    /\ threads[Waiter].pc # "idle"
    /\ \A j \in DOMAIN At(TheRecord.tensors, threads[Waiter].chunk) :
          At(TheRecord.tensors, threads[Waiter].chunk)[j] # NoneTensor

\* C8: whatever the interleaving of the feed calls and of a wait_for call,
\* every feed call that began completes, and a feed call that returned its
\* phony has its value stored (no update is lost); a thread blocked in
\* ready_cv.wait() is never left unnotified once every slot of its chunk is
\* filled, and a wait_for call on a chunk whose slots are all filled
\* returns.
C8_ConcurrentFeedsNoLostWakeup ==
    /\ [](\A t \in DOMAIN threads :
             /\ (threads[t].pc = "done" /\ threads[t].result = "phony") => Stored(t)
             /\ t \in ready_cv.waiters => ~ChunkReady(TheRecord, threads[t].chunk))
    /\ \A t \in Feeders :
          (threads # <<>> /\ threads[t].pc = "feed_lock")
              ~> (threads[t].pc = "done")
    /\ (threads # <<>> /\ WaiterChunkComplete) ~> (threads[Waiter].pc = "idle")

\* C8's case: two feed calls for the two slots of one chunk are in progress
\* at once, one holding the lock and one waiting for it, while the executor
\* is blocked in ready_cv.wait() for that chunk
C8_Witness ==
    /\ threads # <<>>
    /\ \E t \in Feeders, u \in Feeders :
          /\ threads[t].pc = "feed_body"
          /\ threads[u].pc = "feed_lock"
          /\ threads[t].call.chunk = threads[u].call.chunk
          /\ threads[t].call.input_idx # threads[u].call.input_idx
          /\ threads[Waiter].chunk = threads[t].call.chunk
    /\ threads[Waiter].pc = "wait_blocked"
    /\ Waiter \in ready_cv.waiters

(***************************************************************************)
(* Properties of the checkpoint choice.                                    *)
(***************************************************************************)
\* the cutoff of a checkpoint mode for a chunk count
Cutoff(checkpoint, nchunks) ==
    IF checkpoint = "always" THEN nchunks
    ELSE IF checkpoint = "except_last" THEN nchunks - 1
    ELSE 0

\* C11: a chunk whose compute was submitted runs under Checkpointing (the
\* checkpoint / recompute pair) if and only if the module is in training
\* mode and the chunk's index is below the cutoff of the checkpoint mode
\* the pipeline was constructed with; otherwise it is computed directly.
C11_CheckpointBelowCutoffInTraining ==
    \A p \in Partitions :
        \A c \in At(exec, p).started :
            (c \in At(exec, p).checkpointed)
                <=> (training /\ c < Cutoff(last_call.checkpoint, last_call.chunks))

\* C11's case: with except_last and two chunks in training mode, a partition
\* ran its first chunk under Checkpointing and its last chunk directly
C11_Witness ==
    /\ last_call.op = "DistributedPipeline"
    /\ last_call.checkpoint = "except_last" /\ last_call.chunks = 2
    /\ training
    /\ \E p \in Partitions :
          At(exec, p).started = {0, 1} /\ At(exec, p).checkpointed = {0}

(***************************************************************************)
(* Properties of create_sequence_pipeline.                                 *)
(***************************************************************************)
SequenceCalled == last_call.op = "create_sequence_pipeline"

\* the balance is a list of positive counts that sum to the number of
\* layers, with one device per count
ValidBalance ==
    /\ \A i \in DOMAIN last_call.balance : last_call.balance[i] > 0
    /\ Sum(last_call.balance) = Len(last_call.layers)
    /\ Len(last_call.devices) = Len(last_call.balance)

\* the module indices of group i of the balance
Group(balance, i) ==
    [k \in 1..balance[i] |-> Sum(SubSeq(balance, 1, i - 1)) + k - 1]

\* the pipeline has one partition per count, group by group
PartitionsFollowBalance ==
    /\ last_call.raised = "none"
    /\ Len(pipe.partitions) = Len(last_call.balance)
    /\ \A i \in DOMAIN last_call.balance :
          pipe.partitions[i] = Group(last_call.balance, i)

\* consecutive devices differ, and within a group only the last layer
\* returns a tuple
GroupsSeparable ==
    /\ \A i \in 1..(Len(last_call.devices) - 1) :
          last_call.devices[i] # last_call.devices[i + 1]
    /\ \A i \in DOMAIN last_call.balance :
          \A k \in 1..(last_call.balance[i] - 1) :
              At(last_call.layers, Group(last_call.balance, i)[k]).num_outputs = NoneOutputs

\* C12, as stated: for any balance of positive counts summing to the number
\* of layers and a matching list of devices, the pipeline has len(balance)
\* partitions, the i-th holding balance[i] consecutive modules.
C12_BalanceGivesPartitions ==
    (SequenceCalled /\ ValidBalance) => PartitionsFollowBalance

\* C12 for separable groups: the same, for device lists in which consecutive devices
\* differ and layer lists in which every layer that is not the last of its
\* group returns a single tensor.
C12_SeparableBalanceGivesPartitions ==
    (SequenceCalled /\ ValidBalance /\ GroupsSeparable) => PartitionsFollowBalance

\* C12's case: three layers split 1 + 2 over two devices
C12_Witness ==
    /\ SequenceCalled /\ ValidBalance /\ GroupsSeparable
    /\ last_call.balance = <<1, 2>>
    /\ pipe.partitions = << <<0>>, <<1, 2>> >>

\* C13: create_sequence_pipeline raises and yields no pipeline whenever the
\* balance does not sum to the number of layers, and whenever balance and
\* devices differ in length.
C13_BadBalanceOrDevicesRaises ==
    (SequenceCalled
     /\ (\/ Sum(last_call.balance) # Len(last_call.layers)
         \/ Len(last_call.balance) # Len(last_call.devices)))
        => (last_call.raised # "none" /\ ~Assembled)

(***************************************************************************)
(* Properties of the constructor's arguments and of cuda / cpu / to.       *)
(***************************************************************************)
ConstructorCalled == last_call.op = "DistributedPipeline"

\* C14: the constructor raises ValueError exactly when chunks <= 0 or the
\* checkpoint is none of the three modes, and then no partition and no
\* partition handler exists; with valid values it goes on to the split.
C14_BadArgumentsRaiseBeforeSplit ==
    ConstructorCalled =>
        /\ (pipe.err = "ValueError")
               <=> (last_call.chunks <= 0
                    \/ last_call.checkpoint \notin {"always", "except_last", "never"})
        /\ pipe.err = "ValueError" =>
               (pipe.partitions = <<>> /\ pipe.partition_handlers = <<>>)

\* C14's case: a constructor call with chunks = 0 on a graph with modules
C14_Witness ==
    /\ ConstructorCalled
    /\ last_call.chunks = 0
    /\ graph.modules_list # <<>>
    /\ pipe.err = "ValueError"

\* the call passes a device or a tensor, by position or by keyword
HasPlacementArgument(c) ==
    \/ "device" \in c.kwargs \/ "tensor" \in c.kwargs
    \/ \E i \in DOMAIN c.args : c.args[i] \in {"device", "int", "str", "tensor"}

\* C15: on an assembled pipeline cuda, cpu, and to with a device or tensor
\* argument raise the TypeError MOVING_DENIED; to without one raises
\* nothing; in both cases the graph, the partitions and the partition
\* handlers stay as they were.
C15_MovesDenied ==
    [][ last_call'.op \in {"cuda", "cpu", "to"} =>
            /\ pipe' = pipe /\ graph' = graph
            /\ (last_call'.raised = "TypeError")
                   <=> (last_call'.op \in {"cuda", "cpu"} \/ HasPlacementArgument(last_call'))
            /\ last_call'.raised \in {"TypeError", "none"} ]_vars

\* C15's case: to(dtype, device=...) was denied on a pipeline of two
\* partitions
C15_Witness ==
    /\ last_call.op = "to"
    /\ last_call.args = <<"dtype">> /\ last_call.kwargs = {"device"}
    /\ last_call.raised = "TypeError"
    /\ Len(pipe.partitions) = 2

(***************************************************************************)
(* Properties of the partitions' chains and of the module list.            *)
(***************************************************************************)
\* the inputs (module i, input j) sourced from an output of module a
Consumers(g, a) ==
    {<<i, j>> \in ModuleIndices(g) \X (0..MaxModules) :
        /\ At(g.inputs, i) # NoneInputs
        /\ j < Len(At(g.inputs, i))
        /\ At(At(g.inputs, i), j)[1] = a}

\* C16: in every partition the split returned, each module a followed by b
\* returns a single tensor whose only consumer is b, b has no other input
\* than output 0 of a, and a and b are on the same worker and device.
C16_PartitionsAreChains ==
    \A n \in DOMAIN pipe.partitions :
        \A k \in 1..(Len(pipe.partitions[n]) - 1) :
            LET a == pipe.partitions[n][k]
                b == pipe.partitions[n][k + 1]
            IN /\ At(graph.modules_list, a).num_outputs = NoneOutputs
               /\ Consumers(graph, a) = {<<b, 0>>}
               /\ At(graph.inputs, b) = << <<a, 0>> >>
               /\ At(graph.modules_list, a).on = At(graph.modules_list, b).on
               /\ At(graph.modules_list, a).device = At(graph.modules_list, b).device

\* C16's case: the split returned a partition of two modules next to a
\* module on another worker
C16_Witness ==
    /\ pipe.err = "none"
    /\ Len(pipe.partitions) = 2
    /\ \E n \in DOMAIN pipe.partitions : Len(pipe.partitions[n]) = 2

\* C17: no module is in the module list twice, and the module list and the
\* list of inputs have the same length.
C17_ModulesAppearOnce ==
    /\ \A i \in DOMAIN graph.modules_list, j \in DOMAIN graph.modules_list :
          i # j => graph.modules_list[i] # graph.modules_list[j]
    /\ Len(graph.modules_list) = Len(graph.inputs)


(***************************************************************************)
(* Properties of fence and forward_results.                                *)
(***************************************************************************)
\* partition p receives a chunk of the model input directly from forward
EntryPartition(p) == \E n \in DOMAIN pipe.input_feeds : pipe.input_feeds[n][1] = p

\* fence has returned for chunk i of partition p and compute has not yet
\* replaced the batch
Fenced(p) == At(exec, p).pc \in {"compute", "computing"}

\* the batch of p's current chunk carries a dependency
DependencyInjected(p) ==
    LET batch == At(At(pipeline_records, p).batches, At(exec, p).i)
    IN \E k \in DOMAIN batch.tensors : batch.tensors[k].deps # {}

\* C18: fence injects a dependency into chunk c of a partition only if c is
\* not the first chunk, the partition has users, and the partition is not an
\* entry partition.
C18_FenceSparesEntryPartitions ==
    \A p \in Partitions :
        (Fenced(p) /\ DependencyInjected(p)) =>
            /\ At(exec, p).i # 0
            /\ At(pipeline_records, p).users # <<>>
            /\ ~EntryPartition(p)

\* the phony the feed issued for user n of partition p on chunk c returns
UserPhony(p, c, n) ==
    LET user == At(pipeline_records, p).users[n]
    IN [to |-> user[1], chunk |-> c, input_idx |-> user[2], from |-> <<p, user[3]>>]

\* the list forwarded_phony[c][k] of partition p, <<>> when there is none
ForwardedPhony(p, c, k) ==
    LET row == At(At(pipeline_records, p).forwarded_phony, c)
    IN IF k < Len(row) THEN At(row, k) ELSE <<>>

\* C19: forward_results raises nothing for an output slot a user references,
\* and once it has forwarded chunk c, every user's phony is stored exactly
\* once in the list of (c, its output slot).
C19_EveryUserFedAndTokenStored ==
    \A p \in Partitions :
        /\ At(exec, p).exc # "IndexError"
        /\ \A c \in At(exec, p).forwarded :
              \A n \in DOMAIN At(pipeline_records, p).users :
                  Cardinality({x \in DOMAIN ForwardedPhony(p, c, At(pipeline_records, p).users[n][3]) :
                                  ForwardedPhony(p, c, At(pipeline_records, p).users[n][3])[x]
                                      = UserPhony(p, c, n)}) = 1

\* C20: when the fence applies to chunk c of a partition, every phony of
\* chunk c-1 is joined into the input tensor of chunk c at the phony's output
\* slot, none is left out, and compute of chunk c starts only after every
\* feed of chunk c-1 issued by the partition has returned.
C20_FenceJoinsPreviousChunk ==
    \A p \in Partitions :
        LET rec == At(pipeline_records, p)
            c == At(exec, p).i
        IN (Fenced(p) /\ FenceApplies(rec, c)) =>
              /\ \A n \in DOMAIN rec.users :
                    /\ rec.users[n][3] < Len(At(rec.batches, c).tensors)
                    /\ UserPhony(p, c - 1, n)
                           \in At(At(rec.batches, c).tensors, rec.users[n][3]).deps
              /\ \A k \in DOMAIN At(rec.batches, c).tensors :
                    At(rec.batches, c).tensors[k].deps
                        = {UserPhony(p, c - 1, n) :
                              n \in {m \in DOMAIN rec.users : rec.users[m][3] = k - 1}}
              /\ \A call \in rpc : ~(call.from[1] = p /\ call.chunk = c - 1)

\* C20's case: a partition with users, past the first, computes its second
\* chunk with the phonies of the first joined in
C20_Witness ==
    \E p \in Partitions :
        /\ At(exec, p).pc = "computing" /\ At(exec, p).i = 1
        /\ FenceApplies(At(pipeline_records, p), 1)
        /\ ~EntryPartition(p)
        /\ DependencyInjected(p)


(***************************************************************************)
(* Properties of compute_output_users.                                     *)
(***************************************************************************)
\* how many times x is in the list s
Occurrences(s, x) == Cardinality({n \in DOMAIN s : s[n] = x})

\* the positions (i, j) of the input lists of g
InputPositions(g) ==
    {<<i, j>> \in ModuleIndices(g) \X (0..(MaxModules - 1)) : j < Len(At(g.inputs, i))}

\* the list holds <<i, j, k>> once for each input j of module i sourced
\* from output k of src (an overall input when src is negative), and
\* nothing else
ListsExactlyTheUsers(g, users, src) ==
    /\ \A n \in DOMAIN users :
          /\ <<users[n][1], users[n][2]>> \in InputPositions(g)
          /\ At(At(g.inputs, users[n][1]), users[n][2])[2] = users[n][3]
          /\ IF src >= 0
             THEN At(At(g.inputs, users[n][1]), users[n][2])[1] = src
             ELSE At(At(g.inputs, users[n][1]), users[n][2])[1] < 0
    /\ \A pos \in InputPositions(g) :
          LET item == At(At(g.inputs, pos[1]), pos[2])
          IN (IF src >= 0 THEN item[1] = src ELSE item[1] < 0)
                 => Occurrences(users, <<pos[1], pos[2], item[2]>>) = 1

CanExtend(g, a, b) ==
    /\ At(g.modules_list, a).num_outputs = NoneOutputs
    /\ Consumers(g, a) = {<<b, 0>>}
    /\ At(g.inputs, b) = << <<a, 0>> >>
    /\ At(g.modules_list, a).on = At(g.modules_list, b).on
    /\ At(g.modules_list, a).device = At(g.modules_list, b).device

\* no partition ends where the loop would have gone on to another's first
Maximal(g, partitions) ==
    \A P, Q \in DOMAIN partitions :
        P # Q => ~CanExtend(g, Last(partitions[P]), partitions[Q][1])

\* module b takes an input from module a
Feeds(g, a, b) == \E pos \in Consumers(g, a) : pos[1] = b

WorkerOrDeviceChange(g, a, b) ==
    \/ At(g.modules_list, a).on # At(g.modules_list, b).on
    \/ At(g.modules_list, a).device # At(g.modules_list, b).device

MultiOutput(g, a) == At(g.modules_list, a).num_outputs # NoneOutputs

FanOutAt(g, a) == Cardinality(Consumers(g, a)) > 1

FanInAt(g, b) == Len(At(g.inputs, b)) > 1

\* C25: the partitions of a constructed pipeline are maximal, and wherever
\* the last module of a partition feeds the first module of another there is
\* a worker or device change, a multi-output module, a fan-out or a fan-in.
C25_PartitionsMaximal ==
    pipe.err = "none" =>
        /\ Maximal(graph, pipe.partitions)
        /\ \A P, Q \in DOMAIN pipe.partitions :
              LET a == Last(pipe.partitions[P])
                  b == pipe.partitions[Q][1]
              IN (P # Q /\ Feeds(graph, a, b)) =>
                     \/ WorkerOrDeviceChange(graph, a, b)
                     \/ MultiOutput(graph, a)
                     \/ FanOutAt(graph, a)
                     \/ FanInAt(graph, b)

\* the partitions of a constructed pipeline are maximal under the loop's
\* own test
C25_MaximalUnderLoopTest == pipe.err = "none" => Maximal(graph, pipe.partitions)

(***************************************************************************)
(* Properties of the wiring loop of forward.                               *)
(***************************************************************************)
\* forward has made the record of partition p
Wired(p) == p < Len(pipeline_records) /\ At(pipeline_records, p).created

\* C21: forward makes the records from the last partition down; every user
\* of a partition's output is found as the first module of a partition of
\* greater index (neither the lookup nor the assertion fails) whose record
\* is already made; and every record made has exactly its own run_pipeline
\* launched.
C21_RecordsWiredLastToFirst ==
    /\ fwd.pc \notin {"AssertionError", "StopIteration"}
    /\ fwd.pc = "wire" =>
          \A p \in 0..(NumPartitions - 1) : Wired(p) <=> p > fwd.part_idx
    /\ \A p \in 0..(Len(pipeline_records) - 1) :
          /\ Wired(p) <=> At(exec, p).pc # "unlaunched"
          /\ Wired(p) =>
                LET out == At(pipe.output_users, Last(At(pipe.partitions, p)))
                    users == At(pipeline_records, p).users
                IN /\ Len(users) = Len(out)
                   /\ \A n \in DOMAIN users :
                         /\ users[n][1] > p
                         /\ Wired(users[n][1])
                         /\ At(pipe.partitions, users[n][1])[1] = out[n][1]

(***************************************************************************)
(* Properties of the lock of ready_cv.                                     *)
(***************************************************************************)
\* the executor thread is not in wait_for, or is blocked in ready_cv.wait()
ExecutorAwayOrBlocked == threads[Waiter].pc \in {"idle", "wait_blocked"}

\* C22: a feeder holds the lock of ready_cv only in the body of feed, the
\* executor holds it only while it tests the chunk and never while it is
\* blocked in ready_cv.wait(); hence a feed call that began while the
\* executor is blocked in wait_for, or busy outside it, completes, whether
\* or not the chunk ever becomes ready.
C22_FeedCompletesWhileExecutorWaits ==
    /\ [](threads # <<>> =>
             /\ \A t \in Feeders : ready_cv.owner = t <=> threads[t].pc = "feed_body"
             /\ ready_cv.owner = Waiter <=> threads[Waiter].pc = "wait_test"
             /\ threads[Waiter].pc = "wait_blocked" => ready_cv.owner # Waiter)
    /\ \A t \in Feeders :
          (threads # <<>> /\ threads[t].pc = "feed_lock" /\ ExecutorAwayOrBlocked)
              ~> (threads[t].pc = "done" /\ threads[t].result # "none")

\* C22's case: a feed call returned its phony while the executor stays
\* blocked in ready_cv.wait() for a chunk of two inputs, one still missing
C22_Witness ==
    /\ threads # <<>>
    /\ threads[Waiter].pc = "wait_blocked"
    /\ Waiter \in ready_cv.waiters
    /\ ~ChunkReady(TheRecord, threads[Waiter].chunk)
    /\ \E t \in Feeders :
          /\ threads[t].pc = "done" /\ threads[t].result = "phony"
          /\ threads[t].call.chunk = threads[Waiter].chunk

(***************************************************************************)
(* Properties of the progress of a chunk through a record.                 *)
(***************************************************************************)
\* the filled input slots of chunk c of partition p
FilledSlots(p, c) ==
    {j \in DOMAIN At(At(pipeline_records, p).tensors, c) :
        At(At(pipeline_records, p).tensors, c)[j] # NoneTensor}

\* run_pipeline of partition p returned the gathered batches
Gathered(p) == At(exec, p).pc = "returned" /\ At(pipeline_records, p).users = <<>>

\* C23: a chunk only advances from empty through partially fed and ready to
\* consumed: a filled slot is never emptied or replaced, a batch exists only
\* for a chunk whose slots are all filled, a chunk is computed only once its
\* batch exists, forwarded only once computed, and the final result is
\* gathered only once every chunk was computed.
C23_ChunkStatusOnlyAdvances ==
    /\ [](\A p \in Partitions :
             /\ \A c \in 0..(Len(At(pipeline_records, p).batches) - 1) :
                   /\ At(At(pipeline_records, p).batches, c) # NoneBatch => AllFed(p, c)
                   /\ c \in At(exec, p).started =>
                         At(At(pipeline_records, p).batches, c) # NoneBatch
                   /\ c \in At(exec, p).computed => c \in At(exec, p).started
                   /\ c \in At(exec, p).forwarded => c \in At(exec, p).computed
                   /\ IssuedBy(p, c) => c \in At(exec, p).computed
                   /\ Gathered(p) => c \in At(exec, p).computed)
    /\ [][ \A r \in DOMAIN pipeline_records :
           \A c \in DOMAIN pipeline_records[r].tensors :
           \A j \in DOMAIN pipeline_records[r].tensors[c] :
              (exec # <<>> /\ pipeline_records[r].tensors[c][j] # NoneTensor)
                  => pipeline_records'[r].tensors[c][j] = pipeline_records[r].tensors[c][j] ]_vars

\* C23's case: in a partition of two inputs, the first chunk was consumed
\* while the second is partially fed and has no batch yet
C23_Witness ==
    \E p \in Partitions :
        /\ pipe.chunks = 2
        /\ At(pipe.partition_handlers, p).num_input = 2
        /\ 0 \in At(exec, p).forwarded
        /\ Cardinality(FilledSlots(p, 1)) = 1
        /\ At(At(pipeline_records, p).batches, 1) = NoneBatch

(***************************************************************************)
(* Properties of the feeds of one forward call.                            *)
(***************************************************************************)
\* every partition is declared with as many inputs as its first module has
\* sources in the graph
InputCountsMatch ==
    \A p \in DOMAIN pipe.partitions :
        pipe.partition_handlers[p].num_input = Len(At(graph.inputs, pipe.partitions[p][1]))

\* who feeds input slot j of partition q: users entries <<p, n>> of the
\* records, and entries <<-1, n>> of input_feeds
SlotFeeders(q, j) ==
    {<<p, n>> \in Partitions \X (1..MaxModules) :
        /\ n <= Len(At(pipeline_records, p).users)
        /\ At(pipeline_records, p).users[n][1] = q
        /\ At(pipeline_records, p).users[n][2] = j}
    \cup {<<-1, n>> : n \in {m \in DOMAIN pipe.input_feeds :
                               pipe.input_feeds[m][1] = q /\ pipe.input_feeds[m][2] = j}}

\* C26: in a forward call on a pipeline whose partitions' input counts match
\* their wired sources, every input slot of every partition has exactly one
\* feeder, no feed call fails, and when the call has run its course without
\* a compute failure every slot of every chunk is filled.
C26_EverySlotFedExactlyOnce ==
    (InputCountsMatch /\ fwd.pc = "returned") =>
        /\ \A q \in Partitions :
              \A j \in 0..(At(pipe.partition_handlers, q).num_input - 1) :
                  Cardinality(SlotFeeders(q, j)) = 1
        /\ rpc_failed = {}
        /\ (~SomeComputeFailed /\ ~ENABLED Next) =>
              \A q \in Partitions :
                  \A c \in 0..(pipe.chunks - 1) : AllFed(q, c)
=============================================================================
